---- MODULE Spec2Model ----
(***************************************************************************)
(* MCPClient (ptc_wrapper/mcp/client.py): a JSON-RPC-over-stdio client     *)
(* that owns a child process.  Every coroutine of the client is modelled   *)
(* as a task whose steps are the code between two awaits; the provider     *)
(* (the child process) is the environment and answers each readline()     *)
(* with any line, with a closed stream, or with a line that is not JSON.   *)
(*                                                                         *)
(* Next to the client stand the provider-side paginator, continuation     *)
(* tokens and document cache, and the orchestration loop that drives the   *)
(* model and the tools; each has a specification of its own.               *)
(***************************************************************************)
EXTENDS Integers, Sequences, FiniteSets, TLC

\* ------------------------------------------------------------------ bounds
MaxProcs == 3      \* child processes one client may spawn in a run
MaxRequests == 5   \* cap of the request-id counter
MaxProcsConc == 1      \* the same two caps when two coroutines share
MaxRequestsConc == 4   \* the client
GracePeriod == 5   \* asyncio.wait_for(self.process.wait(), timeout=5.0)

ToolNames == {"a", "b"}
NoName == "<noname>"   \* a tools/list entry without a "name" key
TaskIds == {1, 2}

VARIABLES
    tasks,        \* the coroutines that use the client in this run
    process,      \* self.process: 0 is None, else the pid of the child
    tools,        \* self.tools: the names registered
    _request_id,  \* self._request_id
    _connected,   \* self._connected
    children,     \* the child processes spawned so far, by pid
    wire,         \* the lines written to the stdin of the child self.process names
    pc,           \* per task: the await the coroutine is suspended at
    op,           \* per task: the public method the task is running / ran last
    frame,        \* per task: locals of the running call
    outcome,      \* per task: how the last public method ended
    pending,      \* per task: ids of requests written whose response is awaited
    inWith,       \* per task: inside the body of `async with MCPClient`
    pager,        \* a run of the paginator over one document
    token,        \* a continuation token on its way out and back
    cache,        \* the document cache of one provider process
    clock,        \* the time the provider process reads, in minutes
    loop,         \* one invocation of the orchestration loop
    perms,        \* permission-analyzer.py: a classification or a suggestion run
    skill,        \* skill-analyzer.py: history.jsonl, the checkpoint file, the runs
    scan,         \* secret-scanner.py: one run of main()
    mcpconf,      \* mcp/loader.py: one call of load_mcp_config
    examples      \* tools/examples.py: one call of generate_input_examples

ClientVars == <<tasks, process, tools, _request_id, _connected, children, wire,
                pc, op, frame, outcome, pending, inWith>>
\* The components next to the client; a specification of one component
\* leaves the others unused.
Apart == <<pager, token, cache, clock, loop>>
\* The scripts and helpers of the repository, each run on its own.
Scripts == <<perms, skill, scan, mcpconf, examples>>
vars == <<ClientVars, Apart, Scripts>>
Unused == "unused"

\* ------------------------------------------------------- the wire format
ErrorFields == {"absent", "empty", "nomessage", "message"}

\* A line read from the child's stdout.  kind "eof" is the empty read,
\* "garbage" a line json.loads rejects, "line" a JSON-RPC response whose id
\* is (id_ok) or is not the id of the request just sent.
NoLine == [kind |-> "none", id_ok |-> TRUE, error |-> "absent",
           has_result |-> FALSE, tools |-> {}]
Eof == [NoLine EXCEPT !.kind = "eof"]
Garbage == [NoLine EXCEPT !.kind = "garbage"]
Line(i, e, r, s) ==
    [kind |-> "line", id_ok |-> i, error |-> e, has_result |-> r, tools |-> s]
\* The responses of the provider: a result (any list of tools, or none)
\* under the id sent or another one; an empty error object with or without
\* a result; an error object without and with a message.
ResponseLines ==
    {Line(i, "absent", FALSE, {}) : i \in BOOLEAN}
    \cup {Line(i, "absent", TRUE, s) :
            i \in BOOLEAN, s \in SUBSET (ToolNames \cup {NoName})}
    \cup {Line(TRUE, "empty", FALSE, {}), Line(TRUE, "empty", TRUE, {"a"}),
          Line(TRUE, "nomessage", FALSE, {}), Line(TRUE, "message", FALSE, {})}
Lines == {Eof, Garbage} \cup ResponseLines

\* With two coroutines the provider is kept to three answers: a result
\* listing tool "a", an error with a message, and the closed stream.
ConcLines ==
    {Eof, Line(TRUE, "absent", TRUE, {"a"}), Line(TRUE, "message", FALSE, {})}

\* MCPResponse(**response_data): the parsed response (id, result, error).
MCPResponse(line) ==
    [id_ok |-> line.id_ok, error |-> line.error,
     result |-> IF line.has_result THEN [present |-> TRUE, tools |-> line.tools]
                ELSE [present |-> FALSE, tools |-> {}]]

\* Python truth value of response.error: None and {} are false.
ErrorTruthy(response) == response.error \in {"nomessage", "message"}

\* response.error.get('message', 'Unknown error')
ErrorMessage(response) ==
    IF response.error = "message" THEN "provider message" ELSE "Unknown error"

\* The part of _send_request after readline(): what the call gives its
\* caller for the line read.  ok: returned; value: the dict returned.
Ok(v) == [ok |-> TRUE, err |-> "", msg |-> "", value |-> v]
Raise(e, m) == [ok |-> FALSE, err |-> e, msg |-> m, value |-> {}]

SendRequestResult(line) ==
    IF line.kind = "eof" THEN Raise("RuntimeError", "closed connection")
    ELSE IF line.kind = "garbage" THEN Raise("JSONDecodeError", "")
    ELSE LET response == MCPResponse(line) IN
         IF ErrorTruthy(response)
         THEN Raise("RuntimeError", ErrorMessage(response))
         ELSE Ok(IF response.result.present THEN response.result.tools ELSE {})

\* ------------------------------------------------------------ the state
NoFrame == [spawned |-> 0,     \* pid of the child this call spawned
            rproc |-> 0,       \* pid whose stdout the pending readline() reads
            sent |-> 0,        \* id of the request _send_request wrote last
            line |-> NoLine,   \* the line its readline() returned (tools blanked)
            listed |-> {},     \* tool names of the tools/list result it got
            wproc |-> 0,       \* pid close() called wait() on
            waited |-> 0,      \* time units close() has waited
            killed |-> FALSE]  \* close() called kill()

NewChild == [running |-> TRUE, stdout_open |-> TRUE, signals |-> <<>>]

\* How a public method ended, as its caller sees it.
Returned == [ok |-> TRUE, err |-> "", msg |-> ""]
Raised(res) == [ok |-> FALSE, err |-> res.err, msg |-> res.msg]
Unset == [ok |-> TRUE, err |-> "unset", msg |-> ""]

Concurrent == Cardinality(tasks) > 1
Provider == IF Concurrent THEN ConcLines ELSE Lines
ProcLimit == IF Concurrent THEN MaxProcsConc ELSE MaxProcs
RequestLimit == IF Concurrent THEN MaxRequestsConc ELSE MaxRequests
\* Time passes by the unit; with two coroutines the grace period of
\* close() passes in one step.
TickStep == IF Concurrent THEN GracePeriod ELSE 1

Idle(t) == pc[t] = "idle"
Busy == {t \in tasks : ~Idle(t)}
Spawning == {t \in tasks : pc[t] = "spawn"}

\* MCPClient.__init__
InitClient ==
    /\ process = 0
    /\ tools = {}
    /\ _request_id = 0
    /\ _connected = FALSE
    /\ children = <<>>
    /\ wire = <<>>
    /\ pc = [t \in TaskIds |-> "idle"]
    /\ op = [t \in TaskIds |-> "none"]
    /\ frame = [t \in TaskIds |-> NoFrame]
    /\ outcome = [t \in TaskIds |-> Unset]
    /\ pending = [t \in TaskIds |-> {}]
    /\ inWith = [t \in TaskIds |-> FALSE]

ScriptsUnused ==
    /\ perms = Unused
    /\ skill = Unused
    /\ scan = Unused
    /\ mcpconf = Unused
    /\ examples = Unused

InitApart ==
    /\ pager = Unused
    /\ token = Unused
    /\ cache = Unused
    /\ clock = 0
    /\ loop = Unused

\* One coroutine drives the client (the reference design).
Init == tasks = {1} /\ InitClient /\ InitApart /\ ScriptsUnused
\* Two coroutines share the client.
InitConc == tasks = {1, 2} /\ InitClient /\ InitApart /\ ScriptsUnused

\* ------------------------------------------------------- building blocks
\* The public method of task t ends: it returns or raises to its caller.
Finish(t, res) ==
    /\ pc' = [pc EXCEPT ![t] = "idle"]
    /\ outcome' = [outcome EXCEPT ![t] = IF res.ok THEN Returned ELSE Raised(res)]

\* stdin.write(line) on the child self.process names, w being what was
\* written to it so far.  A notification has no id: 0.
Written(w, method, id) == Append(w, [method |-> method, id |-> id])

\* _send_request that builds the request before it advances the counter:
\* the line carries the id of the request before it.
SendRequestWrite_PostIncrement(t, method, fr, next, proc, w, pend) ==
    IF proc = 0
    THEN /\ Finish(t, Raise("RuntimeError", "MCP server not connected"))
         /\ frame' = [frame EXCEPT ![t] = fr]
         /\ wire' = w
         /\ pending' = [pending EXCEPT ![t] = pend]
         /\ UNCHANGED _request_id
    ELSE /\ _request_id < RequestLimit
         /\ _request_id' = _request_id + 1
         /\ wire' = Written(w, method, _request_id)
         /\ frame' = [frame EXCEPT ![t] = [fr EXCEPT !.rproc = proc,
                                                     !.sent = _request_id]]
         /\ pending' = [pending EXCEPT ![t] = pend \cup {_request_id}]
         /\ pc' = [pc EXCEPT ![t] = next]
         /\ UNCHANGED outcome

\* _send_request up to its readline(): the guard, the counter, the write.
\* proc is self.process, w its wire and pend the task's pending ids when
\* it is called, fr the frame of the caller; next is the await the task
\* then sits at.
SendRequestWrite(t, method, fr, next, proc, w, pend) ==
    IF proc = 0
    THEN /\ Finish(t, Raise("RuntimeError", "MCP server not connected"))
         /\ frame' = [frame EXCEPT ![t] = fr]
         /\ wire' = w
         /\ pending' = [pending EXCEPT ![t] = pend]
         /\ UNCHANGED _request_id
    ELSE /\ _request_id < RequestLimit
         /\ _request_id' = _request_id + 1
         /\ wire' = Written(w, method, _request_id + 1)
         /\ frame' = [frame EXCEPT ![t] = [fr EXCEPT !.rproc = proc,
                                                     !.sent = _request_id + 1]]
         /\ pending' = [pending EXCEPT ![t] = pend \cup {_request_id + 1}]
         /\ pc' = [pc EXCEPT ![t] = next]
         /\ UNCHANGED outcome

\* The lines readline() on child p can return now.
Readable(p) == IF children[p].stdout_open THEN Provider ELSE {Eof}

\* The child after the read: an empty read means it closed its stdout,
\* and it may have exited as well.
AfterRead(p, line, exited) ==
    IF line.kind = "eof"
    THEN [children EXCEPT ![p].stdout_open = FALSE,
                          ![p].running = IF exited THEN FALSE ELSE @]
    ELSE children

Blank(line) == [line EXCEPT !.tools = {}]

\* The frame after _send_request read `line`.
Got(fr, line) == [fr EXCEPT !.line = Blank(line)]

\* ---------------------------------------------------------------- connect
\* connect() past its `if self._connected: return`: the task awaits
\* asyncio.create_subprocess_exec.
StartSpawn(t) ==
    /\ Len(children) + Cardinality(Spawning) < ProcLimit
    /\ pc' = [pc EXCEPT ![t] = "spawn"]
    /\ frame' = [frame EXCEPT ![t] = NoFrame]
    /\ UNCHANGED <<process, tools, _request_id, _connected, children, wire,
                   outcome, pending, inWith>>

\* connect() without its `if self._connected: return`.
Connect_NoGuard(t) ==
    /\ Idle(t)
    /\ op' = [op EXCEPT ![t] = "connect"]
    /\ StartSpawn(t)
    /\ UNCHANGED tasks

\* connect()
Connect(t) ==
    /\ Idle(t)
    /\ op' = [op EXCEPT ![t] = "connect"]
    /\ IF _connected
       THEN /\ Finish(t, Ok({}))
            /\ frame' = [frame EXCEPT ![t] = NoFrame]
            /\ UNCHANGED <<process, tools, _request_id, _connected, children,
                           wire, pending, inWith>>
       ELSE StartSpawn(t)
    /\ UNCHANGED tasks

\* __aenter__: connect(), then `return self`.
AEnter(t) ==
    /\ Idle(t)
    /\ ~inWith[t]
    /\ op' = [op EXCEPT ![t] = "aenter"]
    /\ IF _connected
       THEN /\ Finish(t, Ok({}))
            /\ frame' = [frame EXCEPT ![t] = NoFrame]
            /\ inWith' = [inWith EXCEPT ![t] = TRUE]
            /\ UNCHANGED <<process, tools, _request_id, _connected, children,
                           wire, pending>>
       ELSE StartSpawn(t)
    /\ UNCHANGED tasks

\* list_tools()
ListTools(t) ==
    /\ Idle(t)
    /\ op' = [op EXCEPT ![t] = "list_tools"]
    /\ IF _connected
       THEN /\ Finish(t, Ok(tools))
            /\ frame' = [frame EXCEPT ![t] = NoFrame]
            /\ UNCHANGED <<process, tools, _request_id, _connected, children,
                           wire, pending, inWith>>
       ELSE StartSpawn(t)
    /\ UNCHANGED tasks

\* call_tool() that writes its request and returns without awaiting the
\* response line.
CallTool_NoWait(t) ==
    /\ Idle(t)
    /\ op' = [op EXCEPT ![t] = "call_tool"]
    /\ IF _connected
       THEN /\ _request_id < RequestLimit
            /\ _request_id' = _request_id + 1
            /\ wire' = Written(wire, "tools/call", _request_id + 1)
            /\ pending' = [pending EXCEPT ![t] = @ \cup {_request_id + 1}]
            /\ frame' = [frame EXCEPT ![t] = [NoFrame EXCEPT !.rproc = process,
                                                             !.sent = _request_id + 1]]
            /\ Finish(t, Ok({}))
            /\ UNCHANGED <<process, tools, _connected, children, inWith>>
       ELSE StartSpawn(t)
    /\ UNCHANGED tasks

\* call_tool() without its `if not self._connected: await self.connect()`.
CallTool_NoConnect(t) ==
    /\ Idle(t)
    /\ op' = [op EXCEPT ![t] = "call_tool"]
    /\ SendRequestWrite(t, "tools/call", NoFrame, "call_read",
                        process, wire, pending[t])
    /\ UNCHANGED <<process, tools, _connected, children, inWith>>
    /\ UNCHANGED tasks

\* call_tool(name, arguments)
CallTool(t) ==
    /\ Idle(t)
    /\ op' = [op EXCEPT ![t] = "call_tool"]
    /\ IF _connected
       THEN /\ SendRequestWrite(t, "tools/call", NoFrame, "call_read",
                                process, wire, pending[t])
            /\ UNCHANGED <<process, tools, _connected, children, inWith>>
       ELSE StartSpawn(t)
    /\ UNCHANGED tasks

\* connect() resumes from create_subprocess_exec: the assignment of
\* self.process and _send_request("initialize") up to its readline().
SpawnDone(t) ==
    /\ pc[t] = "spawn"
    /\ \E started \in BOOLEAN :
        IF ~started
        THEN /\ Finish(t, Raise("OSError", "exec failed"))
             /\ UNCHANGED <<process, _request_id, children, wire, frame, pending>>
        ELSE LET pid == Len(children) + 1 IN
             /\ process' = pid
             /\ children' = Append(children, NewChild)
             /\ SendRequestWrite(t, "initialize",
                                 [frame[t] EXCEPT !.spawned = pid], "init_read",
                                 pid, <<>>, pending[t])
    /\ UNCHANGED <<tasks, tools, _connected, op, inWith>>

\* _send_notification that writes nothing.
SendNotification_Skipped(t, method, next) ==
    /\ pc' = [pc EXCEPT ![t] = next]
    /\ UNCHANGED <<wire, outcome>>

\* _send_notification that takes an id from the counter's current value.
SendNotification_WithId(t, method, next) ==
    IF process = 0
    THEN /\ Finish(t, Raise("RuntimeError", "MCP server not connected"))
         /\ UNCHANGED wire
    ELSE /\ wire' = Written(wire, method, _request_id)
         /\ pc' = [pc EXCEPT ![t] = next]
         /\ UNCHANGED outcome

\* _send_notification: the guard and the write; its drain() is the await
\* the task then sits at.
SendNotification(t, method, next) ==
    IF process = 0
    THEN /\ Finish(t, Raise("RuntimeError", "MCP server not connected"))
         /\ UNCHANGED wire
    ELSE /\ wire' = Written(wire, method, 0)
         /\ pc' = [pc EXCEPT ![t] = next]
         /\ UNCHANGED outcome

\* connect() resumes from the readline() of "initialize", and on a result
\* goes on to _send_notification("notifications/initialized").
InitRead(t) ==
    /\ pc[t] = "init_read"
    /\ \E line \in Readable(frame[t].rproc), exited \in BOOLEAN :
        LET res == SendRequestResult(line) IN
        /\ line.kind # "eof" => ~exited
        /\ children' = AfterRead(frame[t].rproc, line, exited)
        /\ pending' = [pending EXCEPT ![t] = @ \ {frame[t].sent}]
        /\ frame' = [frame EXCEPT ![t] = Got(@, line)]
        /\ IF ~res.ok
           THEN Finish(t, res) /\ UNCHANGED wire
           ELSE SendNotification(t, "notifications/initialized", "notif_drain")
    /\ UNCHANGED <<tasks, process, tools, _request_id, _connected, op, inWith>>

\* connect() resumes from stdin.drain() of the notification:
\* _send_request("tools/list") up to its readline().
NotifDrained(t) ==
    /\ pc[t] = "notif_drain"
    /\ SendRequestWrite(t, "tools/list", frame[t], "list_read", process, wire,
                        pending[t])
    /\ UNCHANGED <<tasks, process, tools, _connected, children, op, inWith>>

\* The registry loop of connect() over tools_data: the names registered
\* when the loop ends or raises.  An entry without "name" raises KeyError
\* after any part of the others was registered.
Registered(old, tools_data) ==
    IF NoName \in tools_data
    THEN {old \cup added : added \in SUBSET (tools_data \ {NoName})}
    ELSE {old \cup tools_data}

\* connect() resumes from the readline() of "tools/list": the registry
\* loop, self._connected = True, and the rest of the public method that
\* called connect().
ListRead(t) ==
    /\ pc[t] = "list_read"
    /\ \E line \in Readable(frame[t].rproc), exited \in BOOLEAN :
        LET res == SendRequestResult(line)
            fr == Got(frame[t], line)
            pend == pending[t] \ {frame[t].sent}
        IN /\ line.kind # "eof" => ~exited
           /\ children' = AfterRead(frame[t].rproc, line, exited)
           /\ IF ~res.ok
              THEN /\ Finish(t, res)
                   /\ frame' = [frame EXCEPT ![t] = fr]
                   /\ pending' = [pending EXCEPT ![t] = pend]
                   /\ UNCHANGED <<tools, _connected, _request_id, wire, inWith>>
              ELSE IF NoName \in res.value
              THEN /\ tools' \in Registered(tools, res.value)
                   /\ Finish(t, Raise("KeyError", "name"))
                   /\ frame' = [frame EXCEPT ![t] = fr]
                   /\ pending' = [pending EXCEPT ![t] = pend]
                   /\ UNCHANGED <<_connected, _request_id, wire, inWith>>
              ELSE /\ tools' \in Registered(tools, res.value)
                   /\ _connected' = TRUE
                   /\ IF op[t] = "call_tool"
                      THEN /\ SendRequestWrite(t, "tools/call",
                                  [fr EXCEPT !.listed = res.value], "call_read",
                                  process, wire, pend)
                           /\ UNCHANGED inWith
                      ELSE /\ Finish(t, Ok({}))
                           /\ frame' = [frame EXCEPT ![t] = [fr EXCEPT !.listed = res.value]]
                           /\ pending' = [pending EXCEPT ![t] = pend]
                           /\ inWith' = [inWith EXCEPT ![t] = (op[t] = "aenter") \/ @]
                           /\ UNCHANGED <<_request_id, wire>>
    /\ UNCHANGED <<tasks, process, op>>

\* call_tool() that treats an error response as the end of the connection:
\* it clears the liveness flag before it raises.
CallRead_ErrorDisconnects(t) ==
    /\ pc[t] = "call_read"
    /\ \E line \in Readable(frame[t].rproc), exited \in BOOLEAN :
        /\ line.kind # "eof" => ~exited
        /\ Finish(t, SendRequestResult(line))
        /\ children' = AfterRead(frame[t].rproc, line, exited)
        /\ frame' = [frame EXCEPT ![t] = Got(@, line)]
        /\ pending' = [pending EXCEPT ![t] = @ \ {frame[t].sent}]
        /\ _connected' = (_connected /\ SendRequestResult(line).ok)
    /\ UNCHANGED <<tasks, process, tools, _request_id, wire, op, inWith>>

\* call_tool() resumes from the readline() of "tools/call".
CallRead(t) ==
    /\ pc[t] = "call_read"
    /\ \E line \in Readable(frame[t].rproc), exited \in BOOLEAN :
        /\ line.kind # "eof" => ~exited
        /\ Finish(t, SendRequestResult(line))
        /\ children' = AfterRead(frame[t].rproc, line, exited)
        /\ frame' = [frame EXCEPT ![t] = Got(@, line)]
        /\ pending' = [pending EXCEPT ![t] = @ \ {frame[t].sent}]
    /\ UNCHANGED <<tasks, process, tools, _request_id, _connected, wire, op, inWith>>

\* ------------------------------------------------------------------ close
\* close() without its `if self.process:`: on None terminate() raises.
CloseStart_Unguarded(t) ==
    IF process = 0
    THEN /\ Finish(t, Raise("AttributeError", "terminate"))
         /\ frame' = [frame EXCEPT ![t] = NoFrame]
         /\ UNCHANGED <<process, _connected, children, wire>>
    ELSE /\ children' = [children EXCEPT ![process].signals = Append(@, "terminate")]
         /\ frame' = [frame EXCEPT ![t] = [NoFrame EXCEPT !.wproc = process]]
         /\ pc' = [pc EXCEPT ![t] = "wait"]
         /\ UNCHANGED <<process, _connected, wire, outcome>>

\* close() up to its await: `if self.process:`, terminate(), and the call
\* of self.process.wait() that wait_for then awaits.
CloseStart(t) ==
    IF process = 0
    THEN /\ Finish(t, Ok({}))
         /\ frame' = [frame EXCEPT ![t] = NoFrame]
         /\ UNCHANGED <<process, _connected, children, wire>>
    ELSE /\ children' = [children EXCEPT ![process].signals = Append(@, "terminate")]
         /\ frame' = [frame EXCEPT ![t] = [NoFrame EXCEPT !.wproc = process]]
         /\ pc' = [pc EXCEPT ![t] = "wait"]
         /\ UNCHANGED <<process, _connected, wire, outcome>>

\* close()
Close(t) ==
    /\ Idle(t)
    /\ op' = [op EXCEPT ![t] = "close"]
    /\ CloseStart(t)
    /\ UNCHANGED <<tasks, tools, _request_id, pending, inWith>>

\* __aexit__(exc_type, exc_val, exc_tb): the body of `async with` ended,
\* by return or by exception; the arguments are not looked at.
AExit(t) ==
    /\ Idle(t)
    /\ inWith[t]
    /\ op' = [op EXCEPT ![t] = "aexit"]
    /\ inWith' = [inWith EXCEPT ![t] = FALSE]
    /\ CloseStart(t)
    /\ UNCHANGED <<tasks, tools, _request_id, pending>>

\* One time unit of the grace period passes with the child still running.
CloseTick(t) ==
    /\ pc[t] = "wait"
    /\ children[frame[t].wproc].running
    /\ frame[t].waited < GracePeriod
    /\ frame' = [frame EXCEPT ![t].waited = @ + TickStep]
    /\ UNCHANGED <<tasks, process, tools, _request_id, _connected, children,
                   wire, pc, op, outcome, pending, inWith>>

\* close() that clears the handle and leaves the flag as it was.
Release_KeepsFlag(t) ==
    /\ process' = 0
    /\ UNCHANGED _connected
    /\ wire' = <<>>
    /\ Finish(t, Ok({}))

\* close() after its try block: the handle and the flag are cleared.
Release(t) ==
    /\ process' = 0
    /\ _connected' = FALSE
    /\ wire' = <<>>
    /\ Finish(t, Ok({}))

\* close() that calls kill() after the wait whether or not it timed out.
CloseExited_Kills(t) ==
    /\ pc[t] = "wait"
    /\ frame[t].waited < GracePeriod \/ ~children[frame[t].wproc].running
    /\ process # 0
    /\ children' = [children EXCEPT ![process].signals = Append(@, "kill"),
                                    ![process].running = FALSE,
                                    ![process].stdout_open = FALSE]
    /\ Release(t)
    /\ UNCHANGED <<tasks, tools, _request_id, op, frame, pending, inWith>>

\* wait() completes within the grace period (the child exits now or had
\* exited): close() goes on after the try block.
CloseExited(t) ==
    /\ pc[t] = "wait"
    /\ frame[t].waited < GracePeriod \/ ~children[frame[t].wproc].running
    /\ children' = [children EXCEPT ![frame[t].wproc].running = FALSE,
                                    ![frame[t].wproc].stdout_open = FALSE]
    /\ Release(t)
    /\ UNCHANGED <<tasks, tools, _request_id, op, frame, pending, inWith>>

\* asyncio.TimeoutError after the grace period: self.process.kill(), then
\* close() goes on after the try block.
CloseTimeout(t) ==
    /\ pc[t] = "wait"
    /\ children[frame[t].wproc].running
    /\ frame[t].waited = GracePeriod
    /\ IF process = 0
       THEN \* another coroutine cleared self.process: None has no kill()
            /\ Finish(t, Raise("AttributeError", "kill"))
            /\ UNCHANGED <<process, _connected, children, wire, frame>>
       ELSE /\ children' = [children EXCEPT ![process].signals = Append(@, "kill"),
                                            ![process].running = FALSE,
                                            ![process].stdout_open = FALSE]
            /\ frame' = [frame EXCEPT ![t].killed = TRUE]
            /\ Release(t)
    /\ UNCHANGED <<tasks, tools, _request_id, op, pending, inWith>>

\* ------------------------------------------------------ the specifications
Next ==
    \/ \E t \in tasks : Connect(t) /\ UNCHANGED <<Apart, Scripts>>
    \/ \E t \in tasks : AEnter(t) /\ UNCHANGED <<Apart, Scripts>>
    \/ \E t \in tasks : ListTools(t) /\ UNCHANGED <<Apart, Scripts>>
    \/ \E t \in tasks : CallTool(t) /\ UNCHANGED <<Apart, Scripts>>
    \/ \E t \in tasks : SpawnDone(t) /\ UNCHANGED <<Apart, Scripts>>
    \/ \E t \in tasks : InitRead(t) /\ UNCHANGED <<Apart, Scripts>>
    \/ \E t \in tasks : NotifDrained(t) /\ UNCHANGED <<Apart, Scripts>>
    \/ \E t \in tasks : ListRead(t) /\ UNCHANGED <<Apart, Scripts>>
    \/ \E t \in tasks : CallRead(t) /\ UNCHANGED <<Apart, Scripts>>
    \/ \E t \in tasks : Close(t) /\ UNCHANGED <<Apart, Scripts>>
    \/ \E t \in tasks : AExit(t) /\ UNCHANGED <<Apart, Scripts>>
    \/ \E t \in tasks : CloseTick(t) /\ UNCHANGED <<Apart, Scripts>>
    \/ \E t \in tasks : CloseExited(t) /\ UNCHANGED <<Apart, Scripts>>
    \/ \E t \in tasks : CloseTimeout(t) /\ UNCHANGED <<Apart, Scripts>>

Spec == Init /\ [][Next]_vars
SpecConc == InitConc /\ [][Next]_vars

TypeOK ==
    /\ process \in 0..MaxProcs
    /\ tools \subseteq ToolNames
    /\ _request_id \in 0..MaxRequests
    /\ _connected \in BOOLEAN
    /\ Len(children) <= MaxProcs

\* ================================================================ claims
Methods(w) == [i \in 1..Len(w) |-> w[i].method]
Handshake == <<"initialize", "notifications/initialized", "tools/list">>
AllPending == UNION {pending[t] : t \in tasks}
\* The public method of t that ran connect()'s handshake has returned.
Connected(t) ==
    /\ Idle(t)
    /\ outcome[t] = Returned
    /\ op[t] \in {"connect", "aenter", "list_tools"}
    /\ frame[t].spawned # 0

\* C1: every child an MCPClient spawned is terminated on every exit path:
\* when connect() or __aenter__ raises after the spawn the child no longer
\* runs, and when __aexit__ has returned no child is held or running.
C1_ChildTerminatedOnEveryExit ==
    \A t \in tasks :
        /\ (Idle(t) /\ op[t] \in {"connect", "aenter"} /\ ~outcome[t].ok
              /\ frame[t].spawned # 0)
           => ~children[frame[t].spawned].running
        /\ (Idle(t) /\ op[t] = "aexit" /\ frame[t].wproc # 0)
           => process = 0 /\ ~children[frame[t].wproc].running

\* C2: a connect() that succeeds on a non-live client has written to the
\* child it spawned exactly initialize, notifications/initialized and
\* tools/list, in this order; the notification is written only after the
\* initialize response was read; _connected is true only once the
\* tools/list response was read and the registry holds its tools.
C2_HandshakeOrder ==
    /\ \A t \in tasks :
          Connected(t) =>
             /\ process = frame[t].spawned
             /\ Methods(wire) = Handshake
             /\ wire[1].id = frame[t].sent - 1 /\ wire[2].id = 0
             /\ wire[3].id = frame[t].sent
             /\ frame[t].line.kind = "line"
             /\ _connected /\ frame[t].listed \subseteq tools
    /\ Len(wire) >= 2 => wire[1].id \notin AllPending
    /\ _connected =>
          /\ Len(wire) >= 3
          /\ SubSeq(Methods(wire), 1, 3) = Handshake
          /\ wire[3].id \notin AllPending

\* A reconnect succeeded: the second child got the three messages.
C2_Witness ==
    Connected(1) /\ op[1] = "connect" /\ frame[1].spawned = 2
    /\ frame[1].listed = {"a", "b"}

\* C3 as claimed: under every interleaving of the coroutines of one client
\* at most one request is written and not yet answered.
C3_OneInFlight == Cardinality(AllPending) <= 1

\* C3 amended: a coroutine has at most one request in flight, and so has
\* the client while a single coroutine is inside it.
C3_OneInFlightPerCaller ==
    /\ \A t \in tasks : Cardinality(pending[t]) <= 1
    /\ Cardinality(Busy) <= 1 => Cardinality(AllPending) <= 1

\* Both coroutines wait for a response of the same child.
C3_Witness ==
    /\ pc[1] = "call_read" /\ pc[2] = "call_read"
    /\ frame[1].rproc = frame[2].rproc
    /\ pending[1] # pending[2]

\* C4: a response line whose id is not the id of the request sent is not
\* taken as the answer: the call that read it fails.
C4_ResponseIdChecked ==
    \A t \in tasks :
        (frame[t].line.kind = "line" /\ ~frame[t].line.id_ok)
        => Idle(t) /\ ~outcome[t].ok

\* C5: after an empty read failed a call the client is not live any more.
C5_ClosedStreamIsFatal ==
    \A t \in tasks :
        (Idle(t) /\ frame[t].line.kind = "eof")
        => ~outcome[t].ok /\ ~_connected

\* C6: after close() and a successful connect() the registry holds exactly
\* the tools of the tools/list result of that connect().
C6_RegistryReplaced ==
    \A t \in tasks :
        (Connected(t) /\ frame[t].spawned > 1
           /\ \A p \in 1..(frame[t].spawned - 1) : children[p].signals # <<>>)
        => tools = frame[t].listed

\* C7: a response with an `error` field, whatever its value, fails the call
\* with the error the client raises for provider errors.
C7_ErrorFieldFails ==
    \A t \in tasks :
        (frame[t].line.kind = "line" /\ frame[t].line.error # "absent")
        => Idle(t) /\ ~outcome[t].ok /\ outcome[t].err = "RuntimeError"

\* close() of t has returned after it found a child to terminate.
Closed(t) == Idle(t) /\ op[t] \in {"close", "aexit"} /\ frame[t].wproc # 0

Client == <<process, tools, _request_id, _connected, children, wire, pending>>

\* C9: close() on a client without a process (never connected, or closed
\* before) sends no signal, raises nothing and changes nothing.
C9_CloseIdempotent ==
    [][\A t \in tasks :
          (Idle(t) /\ process = 0 /\ op'[t] \in {"close", "aexit"})
          => /\ UNCHANGED Client
             /\ pc'[t] = "idle" /\ outcome'[t] = Returned]_vars

\* The second of two close() calls has returned.
C9_Witness ==
    /\ Idle(1) /\ op[1] = "close" /\ frame[1].wproc = 0
    /\ Len(children) = 1 /\ children[1].signals = <<"terminate">>
    /\ process = 0

\* C10: connect() on a live client spawns nothing, writes and reads nothing
\* and leaves handle, registry, counter and flag as they are.
C10_ConnectNoOp ==
    [][\A t \in tasks :
          (Idle(t) /\ _connected /\ op'[t] \in {"connect", "aenter"})
          => /\ UNCHANGED Client
             /\ pc'[t] = "idle" /\ outcome'[t] = Returned]_vars

\* connect() returned on a live client.
C10_Witness ==
    /\ Idle(1) /\ op[1] = "connect" /\ outcome[1] = Returned
    /\ frame[1].spawned = 0 /\ _connected /\ process # 0

\* The lines the step writes to a child's stdin: all of the wire of a child
\* that became self.process in the step, else what the wire grew by.
WrittenNow ==
    IF process' # process /\ process' # 0 THEN wire'
    ELSE IF Len(wire') > Len(wire)
    THEN SubSeq(wire', Len(wire) + 1, Len(wire'))
    ELSE <<>>
IsRequest(e) == e.method # "notifications/initialized"
RequestsOf(w) == SelectSeq(w, IsRequest)

\* C11: request ids come from a counter that starts at 0 and is never
\* reset: over connect, call_tool, list_tools and close, failed calls and
\* reconnects included, every request written carries the counter's value
\* plus one and advances the counter by exactly one, and nothing else moves
\* the counter; so the k-th request written carries id k.
C11_KthRequestCarriesIdK ==
    /\ _request_id = 0 /\ wire = <<>>
    /\ [](\A i \in 1..Len(RequestsOf(wire)) :
             RequestsOf(wire)[i].id = _request_id - Len(RequestsOf(wire)) + i)
    /\ [][LET new == RequestsOf(WrittenNow) IN
          /\ Len(new) <= 1
          /\ _request_id' = _request_id + Len(new)
          /\ Len(new) = 1 => new[1].id = _request_id + 1]_vars

\* The fourth request is the initialize of a second child, written after a
\* close(); one of the three before it was a call that failed or a
\* handshake that did.
C11_Witness ==
    /\ process = 2 /\ wire # <<>>
    /\ wire[1] = [method |-> "initialize", id |-> 4]
    /\ children[1].signals # <<>>

\* call_tool() of t raised for an error response to its tools/call.
ErrorAnswered(t) ==
    /\ Idle(t) /\ op[t] = "call_tool"
    /\ wire # <<>> /\ wire[Len(wire)].method = "tools/call"
    /\ frame[t].line.kind = "line"
    /\ ErrorTruthy(MCPResponse(frame[t].line))

\* C12: an error response to call_tool on a live client is raised to the
\* caller and nothing else: handle, flag, registry and wire stay as they
\* are, the child got no signal, and the next call_tool writes its request
\* to the same child without a spawn or a handshake.
C12_ErrorLeavesConnection ==
    /\ [](\A t \in tasks :
             ErrorAnswered(t) =>
                /\ outcome[t] = Raised(Raise("RuntimeError",
                                    ErrorMessage(MCPResponse(frame[t].line))))
                /\ _connected /\ process # 0 /\ process = frame[t].rproc
                /\ children[process].signals = <<>>)
    /\ [][\A t \in tasks :
           /\ (pc[t] = "call_read" /\ pc'[t] = "idle"
                 /\ frame'[t].line.kind = "line"
                 /\ ErrorTruthy(MCPResponse(frame'[t].line)))
              => UNCHANGED <<process, tools, _connected, _request_id,
                             children, wire>>
           /\ (ErrorAnswered(t) /\ op'[t] = "call_tool" /\ pc'[t] # "idle")
              => /\ pc'[t] = "call_read"
                 /\ UNCHANGED <<process, tools, _connected, children>>
                 /\ wire' = Written(wire, "tools/call", _request_id + 1)
                 /\ frame'[t].rproc = process /\ frame'[t].spawned = 0]_vars

\* call_tool() on a client that was live before the call raised the
\* provider's error message.
C12_Witness ==
    /\ ErrorAnswered(1) /\ frame[1].spawned = 0
    /\ outcome[1] = Raised(Raise("RuntimeError", "provider message"))
    /\ _connected

\* C13: the notification is one line without an id (0), written between
\* the initialize and the tools/list requests; while its drain() is awaited
\* nothing is pending and the counter is where initialize left it, so
\* tools/list carries the id after the one of initialize.
C13_NotificationHasNoId ==
    /\ \A i \in 1..Len(wire) :
          /\ wire[i].id = 0 <=> ~IsRequest(wire[i])
          /\ ~IsRequest(wire[i]) =>
                /\ i = 2 /\ IsRequest(wire[1])
                /\ Len(wire) >= 3 => wire[3].id = wire[1].id + 1
    /\ \A t \in tasks :
          pc[t] = "notif_drain" =>
             /\ Methods(wire) = <<"initialize", "notifications/initialized">>
             /\ pending[t] = {}
             /\ _request_id = wire[1].id

\* tools/list was written after the notification.
C13_Witness ==
    /\ pc[1] = "list_read" /\ Len(wire) = 3
    /\ wire[2] = [method |-> "notifications/initialized", id |-> 0]
    /\ wire[3].id = wire[1].id + 1

\* C14: _connected is true only while the client holds a child to which the
\* whole handshake was written and whose two responses were read; the flag
\* is set only by the step that reads a tools/list response without error
\* from the child the call spawned; once close() has returned the flag is
\* false and the handle empty.
C14_LiveOnlyAfterHandshake ==
    /\ [](/\ _connected =>
               /\ process # 0
               /\ Len(wire) >= 3 /\ SubSeq(Methods(wire), 1, 3) = Handshake
               /\ {wire[1].id, wire[3].id} \cap AllPending = {}
          /\ \A t \in tasks :
               (Idle(t) /\ op[t] \in {"close", "aexit"}) =>
                  ~_connected /\ process = 0)
    /\ [][(~_connected /\ _connected') =>
            \E t \in tasks :
               /\ pc[t] = "list_read"
               /\ frame'[t].line.kind = "line"
               /\ ~ErrorTruthy(MCPResponse(frame'[t].line))
               /\ process' = frame[t].spawned /\ process' # 0]_vars

\* The client is live on a second child after a close().
C14_Witness ==
    /\ _connected /\ process = 2
    /\ children[1].signals # <<>>

\* ============================================= content cache and paginator
\* The provider-side paginator, continuation tokens and document cache
\* (section 4.3 of the specification).
MaxTextLen == 9    \* characters of a document
MaxPageSize == 2   \* page-size budget, in tokens
CharsPerToken == 4 \* estimated_tokens(text) = floor(len(text) / 4)

Newline == "\n"
Chars == {"x", Newline}
Texts == UNION {[1..n -> Chars] : n \in 0..MaxTextLen}

Min(a, b) == IF a < b THEN a ELSE b
CeilDiv(a, b) == (a + b - 1) \div b

\* estimated_tokens(text)
EstimatedTokens(text) == Len(text) \div CharsPerToken

\* text.rfind('\n'): the 0-based index of the last newline, -1 without one.
RFind(text) ==
    LET at == {i \in 1..Len(text) : text[i] = Newline}
    IN IF at = {} THEN -1 ELSE (CHOOSE i \in at : \A j \in at : j <= i) - 1

\* The pagination algorithm: the page `page` of `text` under a budget of
\* page_size tokens.  Offsets count from 0, the slice is [offset, end).
\* snapped tells that the boundary was pulled back to a newline.
Paginate(text, page, page_size) ==
    LET total_tokens == EstimatedTokens(text)
        char_limit == page_size * CharsPerToken
        total_pages == IF total_tokens = 0 THEN 1
                       ELSE CeilDiv(total_tokens, page_size)
        p == IF page < 1 THEN 1
             ELSE IF page > total_pages THEN total_pages ELSE page
        offset == (p - 1) * char_limit
        end == Min(offset + char_limit, Len(text))
        slice == SubSeq(text, offset + 1, end)
        nl == RFind(slice)
        snap == end # Len(text) /\ 5 * nl > 4 * char_limit
        meta == [page |-> p, page_size |-> page_size,
                 total_pages |-> total_pages, total_tokens |-> total_tokens,
                 has_previous |-> p > 1, offset |-> offset,
                 limit |-> char_limit]
    IN IF offset >= Len(text)
       THEN [text |-> <<>>, has_next |-> FALSE, snapped |-> FALSE,
             meta |-> meta]
       ELSE [text |-> IF snap THEN SubSeq(slice, 1, nl) ELSE slice,
             has_next |-> p < total_pages, snapped |-> snap, meta |-> meta]

\* A reader asks for the pages 1..total_pages of one document in order and
\* joins what it gets.
InitPager ==
    /\ \E text \in Texts, page_size \in 1..MaxPageSize :
          pager = [content |-> text, page_size |-> page_size, page |-> 1,
                   out |-> <<>>, snapped |-> FALSE, done |-> FALSE]
    /\ token = Unused /\ cache = Unused /\ clock = 0 /\ loop = Unused
    /\ tasks = {} /\ InitClient /\ ScriptsUnused

\* The reader fetches its next page.
FetchPage ==
    /\ ~pager.done
    /\ LET r == Paginate(pager.content, pager.page, pager.page_size) IN
       pager' = [pager EXCEPT !.out = @ \o r.text,
                              !.snapped = @ \/ r.snapped,
                              !.page = IF pager.page < r.meta.total_pages
                                       THEN @ + 1 ELSE @,
                              !.done = pager.page >= r.meta.total_pages]
    /\ UNCHANGED <<ClientVars, Scripts, token, cache, clock, loop>>

NextPager == FetchPage
SpecPager == InitPager /\ [][NextPager]_vars

\* C15: when no page was snapped to a newline, the pages 1..total_pages
\* joined in order are the content, the trailing characters of a content
\* whose length is no multiple of 4 * page_size included.
C15_PagesCoverContent ==
    (pager.done /\ ~pager.snapped) => pager.out = pager.content

\* ------------------------------------------------------ continuation token
MaxAddrLen == 3      \* characters of a source address
MaxSessionLen == 2   \* characters of a session identifier
MaxPage == 11        \* page numbers

Delimiter == ":"
TokenChars == {"a", Delimiter}
Digits == <<"0", "1", "2", "3", "4", "5", "6", "7", "8", "9">>
Addresses == UNION {[1..n -> TokenChars] : n \in 0..MaxAddrLen}
Sessions == UNION {[1..n -> TokenChars] : n \in 1..MaxSessionLen}

\* str(page) and int(text): decimal digits, most significant first.
RECURSIVE IntToStr(_)
IntToStr(n) ==
    IF n < 10 THEN <<Digits[n + 1]>>
    ELSE Append(IntToStr(n \div 10), Digits[(n % 10) + 1])
IsNumber(text) ==
    /\ text # <<>>
    /\ \A i \in 1..Len(text) : \E d \in 1..10 : Digits[d] = text[i]
DigitValue(c) == (CHOOSE d \in 1..10 : Digits[d] = c) - 1
RECURSIVE StrToInt(_)
StrToInt(text) ==
    IF text = <<>> THEN 0
    ELSE 10 * StrToInt(SubSeq(text, 1, Len(text) - 1))
         + DigitValue(text[Len(text)])

\* The byte of a character.
Byte(c) == IF c = "a" THEN 97 ELSE IF c = Delimiter THEN 58
           ELSE 48 + DigitValue(c)
Char(b) == IF b = 97 THEN "a" ELSE IF b = 58 THEN Delimiter
           ELSE Digits[b - 47]
Pad == 64   \* the padding symbol, next to the sextets 0..63

\* base64 of a byte string: three bytes make four sextets, a last group of
\* one or two bytes is padded.
RECURSIVE B64Encode(_)
B64Encode(b) ==
    IF Len(b) = 0 THEN <<>>
    ELSE IF Len(b) = 1
    THEN <<b[1] \div 4, (b[1] % 4) * 16, Pad, Pad>>
    ELSE IF Len(b) = 2
    THEN <<b[1] \div 4, (b[1] % 4) * 16 + b[2] \div 16, (b[2] % 16) * 4, Pad>>
    ELSE <<b[1] \div 4, (b[1] % 4) * 16 + b[2] \div 16,
           (b[2] % 16) * 4 + b[3] \div 64, b[3] % 64>>
         \o B64Encode(SubSeq(b, 4, Len(b)))
RECURSIVE B64Decode(_)
B64Decode(s) ==
    IF Len(s) < 4 THEN <<>>
    ELSE LET b1 == s[1] * 4 + s[2] \div 16
             b2 == (s[2] % 16) * 16 + s[3] \div 4
             b3 == (s[3] % 4) * 64 + s[4]
         IN (IF s[3] = Pad THEN <<b1>>
             ELSE IF s[4] = Pad THEN <<b1, b2>>
             ELSE <<b1, b2, b3>>)
            \o B64Decode(SubSeq(s, 5, Len(s)))

Bytes(text) == [i \in 1..Len(text) |-> Byte(text[i])]
Text(bytes) == [i \in 1..Len(bytes) |-> Char(bytes[i])]

\* encode: base64 of the delimiter-joined triple.
EncodeToken(address, session, page) ==
    B64Encode(Bytes(address \o <<Delimiter>> \o session \o <<Delimiter>>
                    \o IntToStr(page)))

\* decode: the text is split from the right; the last two fields are the
\* session id and the page, everything before them is the address.
DecodeToken(tok) ==
    LET text == Text(B64Decode(tok))
        at == {i \in 1..Len(text) : text[i] = Delimiter}
    IN IF Cardinality(at) < 2 THEN [error |-> "InvalidToken"]
       ELSE LET d2 == CHOOSE i \in at : \A j \in at : j <= i
                d1 == CHOOSE i \in at \ {d2} : \A j \in at \ {d2} : j <= i
                page == SubSeq(text, d2 + 1, Len(text))
            IN IF ~IsNumber(page) THEN [error |-> "InvalidToken"]
               ELSE [error |-> "", address |-> SubSeq(text, 1, d1 - 1),
                     session |-> SubSeq(text, d1 + 1, d2 - 1),
                     page |-> StrToInt(page)]

\* A token is minted for (address, session, page) and later handed back.
InitToken ==
    /\ \E address \in Addresses, session \in Sessions, page \in 1..MaxPage :
          token = [address |-> address, session |-> session, page |-> page,
                   text |-> <<>>, stage |-> "new",
                   decoded |-> [error |-> "none"]]
    /\ pager = Unused /\ cache = Unused /\ clock = 0 /\ loop = Unused
    /\ tasks = {} /\ InitClient /\ ScriptsUnused

\* A page with has_next mints the token of the next page.
MintToken ==
    /\ token.stage = "new"
    /\ token' = [token EXCEPT
                    !.text = EncodeToken(token.address, token.session, token.page),
                    !.stage = "minted"]
    /\ UNCHANGED <<ClientVars, Scripts, pager, cache, clock, loop>>

\* The caller resumes with the token; live is its current session.
ResumeToken ==
    /\ token.stage = "minted"
    /\ \E live \in {token.session, <<"a", "a", "a">>} :
          LET d == DecodeToken(token.text) IN
          token' = [token EXCEPT
                       !.stage = "resumed",
                       !.decoded = IF d.error = "" /\ d.session # live
                                   THEN [error |-> "SessionMismatch"] ELSE d]
    /\ UNCHANGED <<ClientVars, Scripts, pager, cache, clock, loop>>

NextToken == MintToken \/ ResumeToken
SpecToken == InitToken /\ [][NextToken]_vars

\* C16: what a token decodes to is what it was minted for, whatever the
\* address (delimiters included), the non-empty session id and the page.
C16_TokenRoundTrip ==
    token.stage = "minted" =>
        DecodeToken(token.text) =
            [error |-> "", address |-> token.address,
             session |-> token.session, page |-> token.page]

\* ----------------------------------------------------------- document cache
MaxDocs == 11    \* distinct documents the callers fetch
MaxClock == 27   \* minutes a run lasts
CacheLimit == 10      \* live entries per provider process
ExpiryMinutes == 15   \* expired when now - timestamp > 15 minutes
ValidMinutes == 15    \* valid only while age < 15 minutes
Ticks == {7}          \* minutes that pass between two operations
SessionIds == {1, 2}

\* The cache key of document k: its address and the session that fetched
\* it; documents are shared out between the sessions in turn.
SessionOf(k) == (k % 2) + 1
Key(k) == [address |-> k, session |-> SessionOf(k)]

Expired(e, now) == now - e.timestamp > ExpiryMinutes
\* The sweep before a write.
Sweep(entries, now) == {e \in entries : ~Expired(e, now)}
Oldest(entries) ==
    {e \in entries : \A f \in entries : e.timestamp <= f.timestamp}
Newest(entries) ==
    {e \in entries : \A f \in entries : e.timestamp >= f.timestamp}

\* Eviction that takes the entry of the largest timestamp.
RECURSIVE Evict_Newest(_)
Evict_Newest(entries) ==
    IF Cardinality(entries) <= CacheLimit THEN {entries}
    ELSE UNION {Evict_Newest(entries \ {e}) : e \in Newest(entries)}

\* Eviction after an insertion: while more than the limit are held, one
\* entry of the smallest timestamp goes.  The results it can have.
RECURSIVE Evict(_)
Evict(entries) ==
    IF Cardinality(entries) <= CacheLimit THEN {entries}
    ELSE UNION {Evict(entries \ {e}) : e \in Oldest(entries)}

NoOp == [op |-> "none", key |-> Key(0), served |-> FALSE, age |-> -1,
         evicted |-> {}]

InitCache ==
    /\ cache = [entries |-> {}, used |-> 0, last |-> NoOp]
    /\ clock = 0
    /\ pager = Unused /\ token = Unused /\ loop = Unused
    /\ tasks = {} /\ InitClient /\ ScriptsUnused

\* A fetched document is stored under its key: sweep, insert, evict.
CacheWrite(k) ==
    LET put == {e \in Sweep(cache.entries, clock) : e.key # Key(k)}
                  \cup {[key |-> Key(k), timestamp |-> clock]}
    IN \E kept \in Evict(put) :
          cache' = [entries |-> kept,
                    used |-> IF k > cache.used THEN k ELSE cache.used,
                    last |-> [NoOp EXCEPT !.op = "write", !.key = Key(k),
                                          !.evicted = put \ kept]]

\* A lookup of the document under its key: an expired entry is deleted and
\* reported absent.
CacheRead(k) ==
    LET hit == {e \in cache.entries : e.key = Key(k)} IN
    IF hit = {}
    THEN cache' = [cache EXCEPT !.last = [NoOp EXCEPT !.op = "read",
                                                      !.key = Key(k)]]
    ELSE LET e == CHOOSE x \in hit : TRUE IN
         IF Expired(e, clock)
         THEN cache' = [cache EXCEPT
                           !.entries = @ \ {e},
                           !.last = [NoOp EXCEPT !.op = "read", !.key = e.key,
                                                 !.age = clock - e.timestamp]]
         ELSE cache' = [cache EXCEPT
                           !.last = [NoOp EXCEPT !.op = "read", !.key = e.key,
                                                 !.served = TRUE,
                                                 !.age = clock - e.timestamp]]

\* The next document is fetched and cached or, with the cache full, the
\* one cached longest is fetched again.  The fetch takes a minute, so that
\* no two timestamps are equal.
Insert ==
    /\ clock < MaxClock
    /\ \E k \in {cache.used + 1}
                  \cup {e.key.address : e \in
                          IF Cardinality(cache.entries) = CacheLimit
                          THEN Oldest(cache.entries) ELSE {}} :
          k <= MaxDocs /\ CacheWrite(k)
    /\ clock' = clock + 1
    /\ UNCHANGED <<ClientVars, Scripts, pager, token, loop>>

\* The document cached longest, or the one cached last, is looked up.
Read ==
    /\ \E e \in Oldest(cache.entries) \cup Newest(cache.entries) :
          CacheRead(e.key.address)
    /\ UNCHANGED <<ClientVars, Scripts, pager, token, clock, loop>>

\* A session is destroyed: its entries are cleared.
DestroySession ==
    /\ \E s \in SessionIds :
          cache' = [cache EXCEPT
                       !.entries = {e \in @ : e.key.session # s},
                       !.last = [NoOp EXCEPT !.op = "destroy"]]
    /\ UNCHANGED <<ClientVars, Scripts, pager, token, clock, loop>>

Tick ==
    /\ \E d \in Ticks : clock + d <= MaxClock /\ clock' = clock + d
    /\ UNCHANGED <<ClientVars, Scripts, pager, token, cache, loop>>

NextCache == Insert \/ Read \/ DestroySession \/ Tick
SpecCache == InitCache /\ [][NextCache]_vars

\* C17: the cache never holds more than 10 entries, of whatever sessions
\* and expired ones included, nor two entries of one key; a write that
\* evicts leaves exactly 10 entries and evicts exactly one entry, whose
\* timestamp no remaining entry is below.
C17_CacheBounded ==
    /\ Cardinality(cache.entries) <= CacheLimit
    /\ \A e, f \in cache.entries : e.key = f.key => e = f
    /\ (cache.last.op = "write" /\ cache.last.evicted # {}) =>
          /\ Cardinality(cache.last.evicted) = 1
          /\ Cardinality(cache.entries) = CacheLimit
          /\ \A v \in cache.last.evicted, e \in cache.entries :
                e.timestamp >= v.timestamp

\* The write of an 11th live document evicted an entry; entries of both
\* sessions remain.
C17_Witness ==
    /\ cache.last.op = "write" /\ cache.last.evicted # {}
    /\ Cardinality(cache.entries) = CacheLimit
    /\ {e.key.session : e \in cache.entries} = SessionIds

\* C18: a read serves an entry exactly while it is valid (age < 15
\* minutes); an entry that is not valid is reported absent and is gone
\* from the cache after the read, so a later read finds nothing either.
C18_ExpiredNeverServed ==
    cache.last.op = "read" =>
       /\ cache.last.served <=>
             (cache.last.age >= 0 /\ cache.last.age < ValidMinutes)
       /\ ~cache.last.served =>
             \A e \in cache.entries : e.key # cache.last.key

\* ================================================ agentic orchestration loop
\* The loop of section 4.4 over one conversation: the model (the
\* chat-completion API) and the tool executor are the environment.
MaxIterations == 2   \* largest max_iterations a caller passes
MaxBlocks == 2       \* content blocks of one response

\* The tool the executor raises for, and one it serves.
FailingTool == "X"
LoopTools == {"fetch", FailingTool}
\* The built-in capability: served upstream, never dispatched.
CodeExecution == "code_execution"

\* What a content block can be, but for its id.
BlockShapes ==
    {[kind |-> "tool_use", name |-> n] : n \in LoopTools}
    \cup {[kind |-> "server_tool_use", name |-> CodeExecution]}
BlockSeqs == UNION {[1..n -> BlockShapes] : n \in 0..MaxBlocks}

NoResponse == [stop_reason |-> "none", blocks |-> <<>>]
\* The responses the model can give to call number turn; the id of a block
\* is unique in the conversation.
Responses(turn) ==
    {[stop_reason |-> "end_turn", blocks |-> <<>>],
     [stop_reason |-> "max_tokens", blocks |-> <<>>]}
    \cup {[stop_reason |-> "tool_use",
           blocks |-> [i \in 1..Len(shapes) |->
                         [kind |-> shapes[i].kind, name |-> shapes[i].name,
                          id |-> <<turn, i>>]]] : shapes \in BlockSeqs}

IsToolCall(block) == block.kind = "tool_use"
\* The tool-call blocks of a response, the built-in ones filtered out.
ToolCalls(response) == SelectSeq(response.blocks, IsToolCall)

\* The tool-result entry of one executed call: the executor's result, or
\* its exception caught and turned into an error-flagged entry.
ToolResult(call) ==
    IF call.name = FailingTool
    THEN [tool_use_id |-> call.id, is_error |-> TRUE,
          content |-> <<"Error", call.name>>]
    ELSE [tool_use_id |-> call.id, is_error |-> FALSE,
          content |-> <<"result">>]

Message(role, response, results) ==
    [role |-> role, stop_reason |-> response.stop_reason,
     calls |-> [i \in 1..Len(ToolCalls(response)) |->
                  [id |-> ToolCalls(response)[i].id,
                   name |-> ToolCalls(response)[i].name]],
     results |-> results]

Terminal == {"EndTurn", "OtherStopReason", "Exhausted"}

\* run(prompt, max_iterations): the conversation holds the user's prompt.
InitLoop ==
    /\ \E max_iterations \in 1..MaxIterations :
          loop = [max_iterations |-> max_iterations, iteration |-> 0,
                  state |-> "AwaitingModel",
                  messages |-> <<Message("user", NoResponse, <<>>)>>,
                  response |-> NoResponse, todo |-> 1, batch |-> <<>>,
                  returned |-> NoResponse]
    /\ pager = Unused /\ token = Unused /\ cache = Unused /\ clock = 0
    /\ tasks = {} /\ InitClient /\ ScriptsUnused

\* An iteration begins: the model is called with the conversation and
\* answers.
ModelResponds ==
    /\ loop.state = "AwaitingModel"
    /\ \E r \in Responses(loop.iteration + 1) :
          loop' = [loop EXCEPT
                     !.iteration = @ + 1,
                     !.response = r,
                     !.todo = 1,
                     !.batch = <<>>,
                     !.state = IF r.stop_reason = "end_turn" THEN "EndTurn"
                               ELSE IF r.stop_reason = "tool_use" THEN "ToolUse"
                               ELSE "OtherStopReason",
                     !.returned = IF r.stop_reason = "tool_use" THEN @ ELSE r]
    /\ UNCHANGED <<ClientVars, Scripts, pager, token, cache, clock>>

\* A tool call whose exception leaves the loop.
ExecuteTool_Propagates ==
    /\ loop.state = "ToolUse"
    /\ loop.todo <= Len(ToolCalls(loop.response))
    /\ LET call == ToolCalls(loop.response)[loop.todo] IN
       IF ToolResult(call).is_error
       THEN loop' = [loop EXCEPT !.state = "Failed"]
       ELSE loop' = [loop EXCEPT !.batch = Append(@, ToolResult(call)),
                                 !.todo = @ + 1]
    /\ UNCHANGED <<ClientVars, Scripts, pager, token, cache, clock>>

\* The next tool call of the response is executed; its result or its
\* failure becomes one entry of the batch.
ExecuteTool ==
    /\ loop.state = "ToolUse"
    /\ loop.todo <= Len(ToolCalls(loop.response))
    /\ loop' = [loop EXCEPT
                  !.batch = Append(@, ToolResult(ToolCalls(loop.response)[loop.todo])),
                  !.todo = @ + 1]
    /\ UNCHANGED <<ClientVars, Scripts, pager, token, cache, clock>>

\* The loop that goes on for one iteration past its budget.
AppendBatch_OnePast ==
    /\ loop.state = "ToolUse"
    /\ loop.todo > Len(ToolCalls(loop.response))
    /\ loop' = [loop EXCEPT
                  !.messages = @ \o <<Message("assistant", loop.response, <<>>),
                                      Message("tool_result", NoResponse, loop.batch)>>,
                  !.state = IF loop.iteration <= loop.max_iterations
                            THEN "AwaitingModel" ELSE "Exhausted",
                  !.returned = IF loop.iteration <= loop.max_iterations
                               THEN @ ELSE loop.response]
    /\ UNCHANGED <<ClientVars, Scripts, pager, token, cache, clock>>

\* All calls of the response were executed: the response and the batch are
\* appended, and the loop goes on unless its budget is used up, when it
\* returns the response as it is.
AppendBatch ==
    /\ loop.state = "ToolUse"
    /\ loop.todo > Len(ToolCalls(loop.response))
    /\ loop' = [loop EXCEPT
                  !.messages = @ \o <<Message("assistant", loop.response, <<>>),
                                      Message("tool_result", NoResponse, loop.batch)>>,
                  !.state = IF loop.iteration < loop.max_iterations
                            THEN "AwaitingModel" ELSE "Exhausted",
                  !.returned = IF loop.iteration < loop.max_iterations
                               THEN @ ELSE loop.response]
    /\ UNCHANGED <<ClientVars, Scripts, pager, token, cache, clock>>

NextLoop == ModelResponds \/ ExecuteTool \/ AppendBatch
SpecLoop == InitLoop /\ [][NextLoop]_vars

\* What is left of the budget and of the running iteration: every step of
\* the loop lowers it.
Measure ==
    (loop.max_iterations - loop.iteration) * (MaxBlocks + 3)
    + IF loop.state = "ToolUse"
      THEN Len(ToolCalls(loop.response)) - loop.todo + 2
      ELSE 0

\* C19: the loop makes at most max_iterations model calls and every step
\* brings it nearer to its end; it can always go on until it has returned;
\* it returns the response of its last model call, on the first response
\* that does not ask for tools, or after the tools of iteration
\* max_iterations when every response asked for tools.
C19_LoopTerminates ==
    /\ [](/\ loop.iteration <= loop.max_iterations
          /\ Measure >= 0
          /\ loop.state \notin Terminal => ENABLED NextLoop
          /\ \A i \in 1..Len(loop.messages) :
                loop.messages[i].role = "assistant"
                   => loop.messages[i].stop_reason = "tool_use"
          /\ loop.state \in Terminal =>
                /\ loop.returned = loop.response
                /\ loop.state = "EndTurn"
                      <=> loop.response.stop_reason = "end_turn"
                /\ loop.state = "Exhausted"
                      <=> loop.response.stop_reason = "tool_use"
                /\ loop.state = "Exhausted"
                      => loop.iteration = loop.max_iterations)
    /\ [][Measure' < Measure]_vars

\* A budget of two or more iterations was used up by a model that asked
\* for tools every time.
C19_Witness ==
    /\ loop.state = "Exhausted"
    /\ loop.max_iterations >= 2 /\ loop.iteration = loop.max_iterations
    /\ loop.returned.stop_reason = "tool_use"

\* The entries results answer the calls, one each and in order: tagged with
\* the call's id, error-flagged with a message naming the tool exactly
\* when the executor raises for it.
Answers(results, calls) ==
    /\ Len(results) = Len(calls)
    /\ \A i \in 1..Len(results) :
          /\ results[i].tool_use_id = calls[i].id
          /\ results[i].is_error <=> calls[i].name = FailingTool
          /\ results[i].is_error
                => \E j \in 1..Len(results[i].content) :
                      results[i].content[j] = calls[i].name

\* C20: no failure of a tool leaves the loop; the batch holds one entry for
\* each call executed so far; in the conversation every batch follows the
\* assistant response it belongs to and answers all of its calls; when the
\* model is called again the conversation ends with the response and the
\* batch of the iteration before.
C20_ToolFailureIsolated ==
    /\ loop.state \in {"AwaitingModel", "ToolUse"} \cup Terminal
    /\ loop.state = "ToolUse" =>
          Answers(loop.batch,
                  SubSeq(ToolCalls(loop.response), 1, loop.todo - 1))
    /\ \A i \in 1..Len(loop.messages) :
          loop.messages[i].role = "tool_result" =>
             /\ i > 1 /\ loop.messages[i - 1].role = "assistant"
             /\ Answers(loop.messages[i].results, loop.messages[i - 1].calls)
    /\ (loop.state = "AwaitingModel" /\ loop.iteration > 0) =>
          /\ Len(loop.messages) = 1 + 2 * loop.iteration
          /\ loop.messages[Len(loop.messages) - 1] =
                Message("assistant", loop.response, <<>>)
          /\ loop.messages[Len(loop.messages)] =
                Message("tool_result", NoResponse, loop.batch)

\* The first of two calls failed, the second was executed, and the model is
\* about to be called again.
C20_Witness ==
    /\ loop.state = "AwaitingModel" /\ loop.iteration > 0
    /\ Len(loop.batch) = 2
    /\ loop.batch[1].is_error /\ ~loop.batch[2].is_error
    /\ loop.messages[Len(loop.messages)].results = loop.batch

\* ====================================================== permission analyzer
\* scripts/permission-analyzer.py: the safety class of a permission
\* pattern and the wildcard suggestions.  A string is a sequence of
\* characters.
MaxRuleLen == 4   \* characters of a rule content

RuleChars == {"r", "R", "m", " ", "l", "s", "(", ")"}
Rules == UNION {[1..n -> RuleChars] : n \in 0..MaxRuleLen}
BashTool == <<"B", "a", "s", "h">>

\* str.lower()
LowerChar(c) == IF c = "R" THEN "r" ELSE IF c = "B" THEN "b" ELSE c
Lower(str) == [i \in 1..Len(str) |-> LowerChar(str[i])]

\* sub in str
Contains(sub, str) ==
    \E i \in 0..(Len(str) - Len(sub)) : SubSeq(str, i + 1, i + Len(sub)) = sub

\* str.split(sep)[1]: the piece after the first sep, up to the next one.
SecondPiece(str, sep) ==
    LET at == {i \in 1..Len(str) : str[i] = sep}
        first == CHOOSE i \in at : \A j \in at : i <= j
        later == at \ {first}
        next == IF later = {} THEN Len(str) + 1
                ELSE CHOOSE i \in later : \A j \in later : i <= j
    IN SubSeq(str, first + 1, next - 1)

\* str.rstrip(c)
RECURSIVE RStrip(_, _)
RStrip(str, c) ==
    IF str # <<>> /\ str[Len(str)] = c
    THEN RStrip(SubSeq(str, 1, Len(str) - 1), c)
    ELSE str

\* The entries of the lists `dangerous` and `safe` that can be written
\* with RuleChars: 'rm ' and 'ls'.
Dangerous == {<<"r", "m", " ">>}
Safe == {<<"l", "s">>}

\* get_safety_classification(pattern)
GetSafetyClassification(pattern) ==
    LET lowered == Lower(pattern)
        command == IF \E i \in 1..Len(lowered) : lowered[i] = "("
                   THEN RStrip(SecondPiece(lowered, "("), ")")
                   ELSE lowered
    IN IF \E d \in Dangerous : Contains(d, command) THEN "dangerous"
       ELSE IF \E sf \in Safe : Contains(sf, command) THEN "safe"
       ELSE "risky"

\* f"{tool_name}({pattern})"
FullPattern(tool_name, rule) == tool_name \o <<"(">> \o rule \o <<")">>

\* Every other component stays unused while a script runs.
AllApartUnused ==
    /\ pager = Unused /\ token = Unused /\ cache = Unused /\ clock = 0
    /\ loop = Unused
    /\ tasks = {} /\ InitClient

\* A pattern Bash(rule) is to be classified.
InitClassify ==
    /\ \E rule \in Rules : perms = [rule |-> rule, safety |-> "none"]
    /\ skill = Unused /\ scan = Unused /\ mcpconf = Unused /\ examples = Unused
    /\ AllApartUnused

Classify ==
    /\ perms.safety = "none"
    /\ perms' = [perms EXCEPT
                   !.safety = GetSafetyClassification(FullPattern(BashTool, perms.rule))]
    /\ UNCHANGED <<ClientVars, Apart, skill, scan, mcpconf, examples>>

NextClassify == Classify
SpecClassify == InitClassify /\ [][NextClassify]_vars

\* C21: Bash(rule) is classified dangerous exactly when the rule content,
\* in lower case, contains a dangerous substring, whatever else it holds.
C21_DangerousTakesPrecedence ==
    perms.safety # "none" =>
       (perms.safety = "dangerous"
           <=> \E d \in Dangerous : Contains(d, Lower(perms.rule)))

\* ------------------------------------------------------ suggest_wildcards
MaxPatterns == 2   \* distinct rule contents counted for one tool
MaxCount == 2      \* times one rule content was requested

\* Rule contents that are classified safe, dangerous and risky.
CountedRules == {<<"l", "s">>, <<"r", "m", " ">>, <<"s">>}
ReadTool == <<"R">>

\* stats['full_patterns'] of one tool: a Counter, iterated in insertion
\* order, of distinct rule contents.
Counters ==
    {c \in UNION {[1..n -> [pattern : CountedRules, count : 1..MaxCount]] :
                     n \in 0..MaxPatterns} :
        \A i, j \in 1..Len(c) : c[i].pattern = c[j].pattern => i = j}

\* list.sort(key=lambda x: x[1], reverse=True): by count, descending, the
\* order of equal counts kept.
RECURSIVE SortByCount(_)
SortByCount(list) ==
    IF list = <<>> THEN <<>>
    ELSE LET rest == SortByCount(Tail(list))
             before == SelectSeq(rest, LAMBDA x : x.count > Head(list).count)
             after == SelectSeq(rest, LAMBDA x : x.count <= Head(list).count)
         IN before \o <<Head(list)>> \o after

\* The loop of suggest_wildcards over the full patterns of one tool,
\* without its `if safety != 'dangerous'`.
SuggestFor_NoFilter(tool_name, full_patterns, min_count) ==
    LET Wanted(e) == e.count >= min_count
        wanted == SelectSeq(full_patterns, Wanted)
    IN [i \in 1..Len(wanted) |->
          [pattern |-> FullPattern(tool_name, wanted[i].pattern),
           count |-> wanted[i].count,
           safety |-> GetSafetyClassification(
                         FullPattern(tool_name, wanted[i].pattern))]]

\* The loop of suggest_wildcards over the full patterns of one tool.
SuggestFor(tool_name, full_patterns, min_count) ==
    LET Wanted(e) ==
            /\ e.count >= min_count
            /\ GetSafetyClassification(FullPattern(tool_name, e.pattern))
                  # "dangerous"
        wanted == SelectSeq(full_patterns, Wanted)
    IN [i \in 1..Len(wanted) |->
          [pattern |-> FullPattern(tool_name, wanted[i].pattern),
           count |-> wanted[i].count,
           safety |-> GetSafetyClassification(
                         FullPattern(tool_name, wanted[i].pattern))]]

\* suggest_wildcards(tool_stats, min_count)
RECURSIVE SuggestAll(_, _)
SuggestAll(tool_stats, min_count) ==
    IF tool_stats = <<>> THEN <<>>
    ELSE SuggestFor(Head(tool_stats).tool_name,
                    Head(tool_stats).full_patterns, min_count)
         \o SuggestAll(Tail(tool_stats), min_count)
SuggestWildcards(tool_stats, min_count) ==
    SortByCount(SuggestAll(tool_stats, min_count))

\* The statistics of two tools and a threshold.
InitSuggest ==
    /\ \E bash \in Counters, read \in Counters, min_count \in 0..(MaxCount + 1) :
          perms = [tool_stats |->
                       <<[tool_name |-> BashTool, full_patterns |-> bash],
                         [tool_name |-> ReadTool, full_patterns |-> read]>>,
                   min_count |-> min_count,
                   suggestions |-> <<>>, done |-> FALSE]
    /\ skill = Unused /\ scan = Unused /\ mcpconf = Unused /\ examples = Unused
    /\ AllApartUnused

Suggest ==
    /\ ~perms.done
    /\ perms' = [perms EXCEPT
                   !.suggestions = SuggestWildcards(perms.tool_stats, perms.min_count),
                   !.done = TRUE]
    /\ UNCHANGED <<ClientVars, Apart, skill, scan, mcpconf, examples>>

NextSuggest == Suggest
SpecSuggest == InitSuggest /\ [][NextSuggest]_vars

\* The patterns of the statistics with their counts.
Counted ==
    UNION {{[pattern |-> FullPattern(perms.tool_stats[t].tool_name,
                                     perms.tool_stats[t].full_patterns[i].pattern),
             count |-> perms.tool_stats[t].full_patterns[i].count] :
               i \in 1..Len(perms.tool_stats[t].full_patterns)} :
           t \in 1..Len(perms.tool_stats)}

\* C22: every suggestion has a count of at least min_count and the class
\* safe or risky that get_safety_classification gives its pattern; the
\* patterns suggested are, once each, the counted ones with a count of at
\* least min_count that are not classified dangerous; counts do not
\* increase along the list.
C22_NeverSuggestsDangerous ==
    perms.done =>
       LET out == perms.suggestions IN
       /\ \A i \in 1..Len(out) :
             /\ out[i].count >= perms.min_count
             /\ out[i].safety \in {"safe", "risky"}
             /\ out[i].safety = GetSafetyClassification(out[i].pattern)
       /\ {[pattern |-> out[i].pattern, count |-> out[i].count] :
              i \in 1..Len(out)}
            = {c \in Counted :
                  /\ c.count >= perms.min_count
                  /\ GetSafetyClassification(c.pattern) # "dangerous"}
       /\ \A i, j \in 1..Len(out) : out[i].pattern = out[j].pattern => i = j
       /\ \A i \in 1..(Len(out) - 1) : out[i].count >= out[i + 1].count

\* A dangerous pattern with a count of at least min_count was left out, and
\* two suggestions with different counts were put in order.
C22_Witness ==
    /\ perms.done /\ Len(perms.suggestions) >= 2
    /\ perms.suggestions[1].count > perms.suggestions[2].count
    /\ \E c \in Counted :
          /\ c.count >= perms.min_count
          /\ GetSafetyClassification(c.pattern) = "dangerous"
    /\ perms.tool_stats[1].full_patterns # <<>>
    /\ perms.tool_stats[1].full_patterns[1].count
          < perms.suggestions[1].count

\* ============================================================ skill analyzer
\* scripts/skill-analyzer.py: runs of main() over history.jsonl and the
\* checkpoint file.  An entry of the history is its timestamp, 0 when it
\* has none (entry.get('timestamp', 0)) or has 0.
MaxHistory == 4   \* entries history.jsonl grows to
MaxTime == 2      \* largest timestamp
MaxRuns == 3      \* runs of the analyzer
None == -1        \* Python's None where an Optional[int] is held

\* Python truth value of an Optional[int].
Truthy(x) == x # None /\ x # 0

\* parse_history(history_file, checkpoint_timestamp): the entries returned,
\* by their line, and the latest timestamp among them.
ParseHistory(history, checkpoint_timestamp) ==
    LET messages == {i \in 1..Len(history) :
                        ~(Truthy(checkpoint_timestamp)
                          /\ history[i] <= checkpoint_timestamp)}
    IN [messages |-> messages,
        latest_timestamp |->
            IF messages = {} THEN None
            ELSE CHOOSE ts \in {history[i] : i \in messages} :
                    \A i \in messages : history[i] <= ts]

\* load_checkpoint(claude_dir, reset); stored is the file's
\* last_analyzed_timestamp, None without a file.
LoadCheckpoint(stored, reset) == IF reset THEN None ELSE stored

InitSkill ==
    /\ skill = [history |-> <<>>, stored |-> None, analysed |-> <<>>,
                runs |-> 0, resets |-> 0,
                last |-> [reset |-> FALSE, loaded |-> None,
                          lines |-> 0, messages |-> {},
                          latest_timestamp |-> None]]
    /\ perms = Unused /\ scan = Unused /\ mcpconf = Unused /\ examples = Unused
    /\ AllApartUnused

\* The assistant appends an entry to history.jsonl.
AppendEntry ==
    /\ Len(skill.history) < MaxHistory
    /\ \E ts \in 0..MaxTime :
          skill' = [skill EXCEPT !.history = Append(@, ts),
                                 !.analysed = Append(@, 0)]
    /\ UNCHANGED <<ClientVars, Apart, perms, scan, mcpconf, examples>>

\* main() that saves the checkpoint after a --reset run as well.
Run_SavesOnReset ==
    /\ skill.runs < MaxRuns
    /\ \E reset \in BOOLEAN :
          LET checkpoint_timestamp == LoadCheckpoint(skill.stored, reset)
              parsed == ParseHistory(skill.history, checkpoint_timestamp)
          IN skill' = [skill EXCEPT
                !.runs = @ + 1,
                !.resets = IF reset THEN @ + 1 ELSE @,
                !.analysed = [i \in 1..Len(skill.history) |->
                                 IF i \in parsed.messages /\ @[i] < 2
                                 THEN @[i] + 1 ELSE @[i]],
                !.stored = IF Truthy(parsed.latest_timestamp)
                           THEN parsed.latest_timestamp ELSE @,
                !.last = [reset |-> reset, loaded |-> checkpoint_timestamp,
                          lines |-> Len(skill.history),
                          messages |-> parsed.messages,
                          latest_timestamp |-> parsed.latest_timestamp]]
    /\ UNCHANGED <<ClientVars, Apart, perms, scan, mcpconf, examples>>

\* main(): load the checkpoint, parse the history, and save the checkpoint
\* `if latest_timestamp and not args.reset`.  analysed counts for every
\* entry the runs that returned it (2 stands for two or more).
Run ==
    /\ skill.runs < MaxRuns
    /\ \E reset \in BOOLEAN :
          LET checkpoint_timestamp == LoadCheckpoint(skill.stored, reset)
              parsed == ParseHistory(skill.history, checkpoint_timestamp)
          IN skill' = [skill EXCEPT
                !.runs = @ + 1,
                !.resets = IF reset THEN @ + 1 ELSE @,
                !.analysed = [i \in 1..Len(skill.history) |->
                                 IF i \in parsed.messages /\ @[i] < 2
                                 THEN @[i] + 1 ELSE @[i]],
                !.stored = IF Truthy(parsed.latest_timestamp) /\ ~reset
                           THEN parsed.latest_timestamp ELSE @,
                !.last = [reset |-> reset, loaded |-> checkpoint_timestamp,
                          lines |-> Len(skill.history),
                          messages |-> parsed.messages,
                          latest_timestamp |-> parsed.latest_timestamp]]
    /\ UNCHANGED <<ClientVars, Apart, perms, scan, mcpconf, examples>>

NextSkill == AppendEntry \/ Run
SpecSkill == InitSkill /\ [][NextSkill]_vars

\* C23: while no run was a --reset run, no entry is returned by two runs,
\* and every entry the last run read was returned by exactly one run.
C23_EachEntryAnalysedOnce ==
    skill.resets = 0 =>
        /\ \A i \in 1..Len(skill.history) : skill.analysed[i] <= 1
        /\ \A i \in 1..skill.last.lines : skill.analysed[i] = 1

\* C29: the stored checkpoint changes only in a run without --reset that
\* returned an entry and whose latest timestamp is not 0; such a run writes
\* that timestamp, which is greater than the checkpoint it loaded.
C29_Step ==
    /\ skill'.runs = skill.runs => skill'.stored = skill.stored
    /\ skill'.runs # skill.runs =>
          LET run == skill'.last
              writes == /\ ~run.reset
                        /\ run.messages # {}
                        /\ run.latest_timestamp # 0
          IN /\ run.loaded = LoadCheckpoint(skill.stored, run.reset)
             /\ writes => /\ skill'.stored = run.latest_timestamp
                          /\ Truthy(run.loaded) => skill'.stored > run.loaded
                          /\ Truthy(skill.stored) => skill'.stored > skill.stored
             /\ ~writes => skill'.stored = skill.stored
C29_CheckpointOnlyAdvances == [][C29_Step]_vars

\* A --reset run over a history holding entries newer than the stored
\* checkpoint, and a run without --reset that advanced the checkpoint.
C29_Witness ==
    /\ skill.runs = MaxRuns
    /\ skill.resets > 0
    /\ skill.last.reset
    /\ Truthy(skill.stored)
    /\ Truthy(skill.last.latest_timestamp)
    /\ skill.last.latest_timestamp > skill.stored

\* ============================================================ secret scanner
\* hooks/damage-control/secret-scanner.py: one invocation of main().  A path
\* is a sequence of pieces, a content a sequence of the strings the rules
\* look for.
MaxFiles == 2     \* file arguments of an invocation
MaxMatches == 1   \* pieces of a file's content

\* One CRITICAL rule, one HIGH rule (SECRET_PATTERNS), and text no rule
\* matches.
SecretPatterns == <<[pattern |-> "AKIA", severity |-> "CRITICAL"],
                    [pattern |-> "sk_test_", severity |-> "HIGH"]>>
ContentPieces == {"AKIA", "sk_test_", "text"}
Contents == UNION {[1..n -> ContentPieces] : n \in 0..MaxMatches}

\* ALLOWED_FILES, the first two, as the pieces the path must end with.
AllowedFiles == {<<".env", ".example">>, <<".env", ".sample">>}
Paths == {<<"a">>, <<"a", ".env">>, <<"a", ".env", ".example">>,
          <<".ENV", ".SAMPLE">>, <<".env", ".example", "a">>}

\* re.IGNORECASE on a piece of a path.
LowerPiece(piece) ==
    CASE piece = ".ENV" -> ".env"
      [] piece = ".SAMPLE" -> ".sample"
      [] OTHER -> piece

\* re.search(pattern + '$', file_path, re.IGNORECASE)
EndsWith(file_path, pattern) ==
    /\ Len(pattern) <= Len(file_path)
    /\ \A i \in 1..Len(pattern) :
          LowerPiece(file_path[Len(file_path) - Len(pattern) + i]) = pattern[i]

\* should_skip_file(file_path)
ShouldSkipFile(file_path) ==
    \E pattern \in AllowedFiles : EndsWith(file_path, pattern)

RECURSIVE ScanRules(_, _)
\* scan_content(content): rule by rule, a finding for every match.
ScanRules(content, r) ==
    IF r > Len(SecretPatterns) THEN <<>>
    ELSE LET rule == SecretPatterns[r]
             matches == SelectSeq(content, LAMBDA m : m = rule.pattern)
         IN [i \in 1..Len(matches) |-> rule.severity]
            \o ScanRules(content, r + 1)
ScanContent(content) == ScanRules(content, 1)

\* A file argument: its path, whether it exists and can be read, and what
\* it holds.
Files ==
    {[path |-> path, state |-> state, content |-> <<>>] :
        path \in Paths, state \in {"missing", "unreadable"}}
    \cup {[path |-> path, state |-> "readable", content |-> content] :
             path \in Paths, content \in Contents}

\* scan_file(file_path) that scans the allowed example files too.
ScanFile_NoSkip(file) ==
    IF file.state = "unreadable" THEN <<>>
    ELSE ScanContent(file.content)

\* scan_file(file_path)
ScanFile(file) ==
    IF ShouldSkipFile(file.path) THEN <<>>
    ELSE IF file.state = "unreadable" THEN <<>>
    ELSE ScanContent(file.content)

NoStatus == -1

InitScan ==
    /\ \E argc \in 0..MaxFiles :
          scan = [argc |-> argc, scanned |-> <<>>, all_findings |-> <<>>,
                  status |-> NoStatus]
    /\ perms = Unused /\ skill = Unused /\ mcpconf = Unused
    /\ examples = Unused /\ AllApartUnused

\* main(): `if len(sys.argv) < 2: ... sys.exit(1)`
Usage ==
    /\ scan.status = NoStatus
    /\ scan.argc = 0
    /\ scan' = [scan EXCEPT !.status = 1]
    /\ UNCHANGED <<ClientVars, Apart, perms, skill, mcpconf, examples>>

\* main(): one turn of `for file_path in sys.argv[1:]`
ScanArgument ==
    /\ scan.status = NoStatus
    /\ Len(scan.scanned) < scan.argc
    /\ \E file \in Files :
          LET findings == IF file.state = "missing" THEN <<>>
                          ELSE ScanFile(file)
          IN scan' = [scan EXCEPT !.scanned = Append(@, file),
                                  !.all_findings = @ \o findings]
    /\ UNCHANGED <<ClientVars, Apart, perms, skill, mcpconf, examples>>

\* main(): after the loop, exit 1 on a CRITICAL finding and 0 otherwise.
Exit ==
    /\ scan.status = NoStatus
    /\ scan.argc > 0
    /\ Len(scan.scanned) = scan.argc
    /\ LET critical_count ==
              Len(SelectSeq(scan.all_findings, LAMBDA f : f = "CRITICAL"))
       IN scan' = [scan EXCEPT !.status = IF critical_count > 0 THEN 1 ELSE 0]
    /\ UNCHANGED <<ClientVars, Apart, perms, skill, mcpconf, examples>>

NextScan == Usage \/ ScanArgument \/ Exit
SpecScan == InitScan /\ [][NextScan]_vars

\* A scanned file that produces a CRITICAL finding: it exists, can be read,
\* is not an allowed example file, and holds a CRITICAL secret.
HasCritical(file) ==
    /\ file.state = "readable"
    /\ ~ShouldSkipFile(file.path)
    /\ \E i \in 1..Len(file.content) : file.content[i] = "AKIA"
CriticalProduced ==
    \E i \in 1..Len(scan.scanned) : HasCritical(scan.scanned[i])

\* C24, as stated: the scanner exits with 1 exactly when a scanned file
\* produced a CRITICAL finding, and with 0 otherwise.
C24_ExitOneIffCritical ==
    scan.status # NoStatus =>
        scan.status = (IF CriticalProduced THEN 1 ELSE 0)

\* C24, amended: that holds of an invocation with at least one file
\* argument; without one the scanner exits with 1 (usage).
C24_ExitOneIffCriticalGivenFiles ==
    scan.status # NoStatus =>
        scan.status = (IF scan.argc = 0 \/ CriticalProduced THEN 1 ELSE 0)

\* An invocation blocked by one CRITICAL file among allowed, HIGH-only
\* and missing ones.
C24_Witness ==
    /\ scan.status = 1
    /\ scan.argc = MaxFiles
    /\ HasCritical(scan.scanned[MaxFiles])
    /\ ~HasCritical(scan.scanned[1])
    /\ ShouldSkipFile(scan.scanned[1].path)
    /\ scan.scanned[1].state = "readable"
    /\ scan.scanned[1].content = <<"AKIA">>

\* ============================================================ MCP config loader
\* ptc_wrapper/mcp/loader.py: load_mcp_config() over ~/.claude.json and
\* ~/.claude/.mcp.json.
ServerNames == {"a", "b"}
NoServer == "absent"

\* What a name is bound to in a JSON object: a server definition (an object
\* with "command" or "url"), another object, a string, a number.
JsonValues == {"server", "object", "string", "number"}
JsonObjects == UNION {[names -> JsonValues] : names \in SUBSET ServerNames}

\* The JSON documents: a number, a list, an object of names (the .mcp.json
\* format), and an object whose "mcpServers" is an object or a list.
JsonDocuments ==
    {[type |-> "number"], [type |-> "list"], [type |-> "mcpServers-list"]}
    \cup {[type |-> "direct", body |-> body] : body \in JsonObjects}
    \cup {[type |-> "mcpServers", body |-> body] : body \in JsonObjects}

\* A config file: missing, unreadable, not JSON, or a JSON document.
ConfigFiles ==
    {[state |-> state] : state \in {"missing", "unreadable", "garbled"}}
    \cup {[state |-> "json", config |-> config] : config \in JsonDocuments}

NoServers == [name \in ServerNames |-> NoServer]

\* servers[name] = expand_config_vars(server_config) for every name of the
\* object; expand_config_vars calls .items() on what it is given.
AddServers(servers, body) ==
    IF \E name \in DOMAIN body : body[name] \in {"string", "number"}
    THEN [servers |-> servers, raised |-> "AttributeError"]
    ELSE [servers |-> [name \in ServerNames |->
                          IF name \in DOMAIN body THEN body[name]
                          ELSE servers[name]],
          raised |-> "none"]

\* The body of load_mcp_config's loop for one existing config file.
LoadFile(servers, file) ==
    CASE file.state \in {"unreadable", "garbled"} ->
            [servers |-> servers, raised |-> "none"]
      [] file.state = "json" /\ file.config.type = "number" ->
            [servers |-> servers, raised |-> "TypeError"]
      [] file.state = "json"
         /\ file.config.type \in {"list", "mcpServers-list"} ->
            [servers |-> servers, raised |-> "AttributeError"]
      [] file.state = "json" /\ file.config.type = "mcpServers" ->
            AddServers(servers, file.config.body)
      [] file.state = "json" /\ file.config.type = "direct" ->
            IF \A name \in DOMAIN file.config.body :
                  file.config.body[name] = "server"
            THEN AddServers(servers, file.config.body)
            ELSE [servers |-> servers, raised |-> "none"]

InitConfig ==
    /\ \E first \in ConfigFiles, second \in ConfigFiles :
          mcpconf = [files |-> <<first, second>>, position |-> 1,
                     servers |-> NoServers, raised |-> "none",
                     returned |-> FALSE]
    /\ perms = Unused /\ skill = Unused /\ scan = Unused
    /\ examples = Unused /\ AllApartUnused

\* One turn of `for config_path in get_claude_config_paths()`; a missing
\* file is not among the paths.
LoadConfig ==
    /\ mcpconf.position <= Len(mcpconf.files)
    /\ mcpconf.raised = "none"
    /\ LET file == mcpconf.files[mcpconf.position]
           loaded == IF file.state = "missing"
                     THEN [servers |-> mcpconf.servers, raised |-> "none"]
                     ELSE LoadFile(mcpconf.servers, file)
       IN mcpconf' = [mcpconf EXCEPT !.position = @ + 1,
                                     !.servers = loaded.servers,
                                     !.raised = loaded.raised]
    /\ UNCHANGED <<ClientVars, Apart, perms, skill, scan, examples>>

\* `return servers`
ReturnServers ==
    /\ mcpconf.position > Len(mcpconf.files)
    /\ mcpconf.raised = "none"
    /\ ~mcpconf.returned
    /\ mcpconf' = [mcpconf EXCEPT !.returned = TRUE]
    /\ UNCHANGED <<ClientVars, Apart, perms, skill, scan, examples>>

NextConfig == LoadConfig \/ ReturnServers
SpecConfig == InitConfig /\ [][NextConfig]_vars

\* A config file the loader has to skip: unreadable, not JSON, or JSON that
\* is neither an object with an "mcpServers" object of objects nor an
\* object of server definitions.
Invalid(file) ==
    \/ file.state \in {"unreadable", "garbled"}
    \/ /\ file.state = "json"
       /\ \/ file.config.type \in {"number", "list", "mcpServers-list"}
          \/ /\ file.config.type = "direct"
             /\ \E name \in DOMAIN file.config.body :
                   file.config.body[name] # "server"
          \/ /\ file.config.type = "mcpServers"
             /\ \E name \in DOMAIN file.config.body :
                   file.config.body[name] \in {"string", "number"}
Finished == mcpconf.returned \/ mcpconf.raised # "none"

\* C25: when one of the two config files is invalid, load_mcp_config raises
\* nothing and returns the servers of the other file alone.
C25_InvalidConfigSkipped ==
    \A i \in 1..2 :
        (Finished /\ Invalid(mcpconf.files[i])
         /\ ~Invalid(mcpconf.files[3 - i])) =>
            /\ mcpconf.raised = "none"
            /\ mcpconf.servers =
                  (IF mcpconf.files[3 - i].state = "missing" THEN NoServers
                   ELSE LoadFile(NoServers, mcpconf.files[3 - i]).servers)

\* ============================================================ input examples
\* ptc_wrapper/tools/examples.py: generate_input_examples(mcp_tool,
\* max_examples).  generate_example_value is a function of the property, so
\* an example dict is given by the set of its keys.
MaxRequired == 2   \* entries of schema.required
MaxExamples == 2   \* largest max_examples
PropNames == {"a", "b"}
RequiredNames == PropNames \cup {"x"}   \* "x" is required but not declared
RequiredLists == UNION {[1..n -> RequiredNames] : n \in 0..MaxRequired}

\* generate_input_examples(mcp_tool, max_examples)
GenerateInputExamples(properties, required, max_examples) ==
    IF properties = {} THEN <<>>
    ELSE LET minimal == {required[i] : i \in 1..Len(required)} \cap properties
             first == IF required # <<>> /\ minimal # {}
                      THEN <<minimal>> ELSE <<>>
             full == properties
         IN IF /\ Cardinality(properties) > Len(required)
               /\ Len(first) < max_examples
               /\ (IF first # <<>> THEN full # first[1] ELSE TRUE)
            THEN Append(first, full)
            ELSE first

InitExamples ==
    /\ \E properties \in SUBSET PropNames, required \in RequiredLists,
          max_examples \in 0..MaxExamples :
          examples = [properties |-> properties, required |-> required,
                      max_examples |-> max_examples,
                      called |-> FALSE, returned |-> <<>>]
    /\ perms = Unused /\ skill = Unused /\ scan = Unused
    /\ mcpconf = Unused /\ AllApartUnused

Generate ==
    /\ ~examples.called
    /\ examples' = [examples EXCEPT
          !.called = TRUE,
          !.returned = GenerateInputExamples(examples.properties,
                            examples.required, examples.max_examples)]
    /\ UNCHANGED <<ClientVars, Apart, perms, skill, scan, mcpconf>>

NextExamples == Generate
SpecExamples == InitExamples /\ [][NextExamples]_vars

\* C26: at most max_examples examples are returned; with required
\* properties the first example has exactly the declared required ones;
\* a second, full example differs from the first.
C26_AtMostMaxExamples ==
    examples.called =>
        /\ Len(examples.returned) <= examples.max_examples
        /\ (examples.required # <<>> /\ examples.returned # <<>>) =>
              examples.returned[1] =
                 {examples.required[i] : i \in 1..Len(examples.required)}
                    \cap examples.properties
        /\ Len(examples.returned) = 2 =>
              examples.returned[2] # examples.returned[1]

\* ================================================== the client, once more
\* C27: every child the client spawned that still runs is the one its
\* process handle names, and once close() or __aexit__ has returned no
\* child of the client runs.
C27_NoChildLost ==
    /\ \A c \in 1..Len(children) : children[c].running => process = c
    /\ \A t \in tasks :
          (Idle(t) /\ op[t] \in {"close", "aexit"}) =>
             \A c \in 1..Len(children) : ~children[c].running

\* C28: a tools/call request is on the wire of a child only behind the
\* initialize request, the initialized notification and the tools/list
\* request written to that child, with both responses read and the
\* handshake succeeded; call_tool on a client that is not live writes
\* nothing before it has spawned a child.
C28_Handshaken ==
    \A i \in 1..Len(wire) :
        wire[i].method = "tools/call" =>
            /\ i > 3
            /\ SubSeq(Methods(wire), 1, 3) = Handshake
            /\ {wire[1].id, wire[3].id} \cap AllPending = {}
            /\ _connected /\ process # 0
C28_OnDemand ==
    \A t \in tasks :
        (Idle(t) /\ ~_connected /\ op'[t] = "call_tool") =>
            /\ pc'[t] = "spawn"
            /\ UNCHANGED <<wire, process, children>>
C28_CallAfterHandshake == []C28_Handshaken /\ [][C28_OnDemand]_vars

\* call_tool after a close(): it spawned the second child, and its
\* tools/call went out behind that child's handshake.
C28_Witness ==
    /\ op[1] = "call_tool" /\ frame[1].spawned = 2 /\ process = 2
    /\ children[1].signals # <<>>
    /\ Len(wire) = 4 /\ wire[4].method = "tools/call"

====
